---- MODULE Spec2Model ----
(***************************************************************************)
(* The Notes Page of notes_frontend (src/app/page.tsx): the React state of *)
(* the Home component, its event handlers, and the requests the handlers   *)
(* have issued to the Notes API and that have not settled yet.             *)
(*                                                                         *)
(* An async handler is two steps: the synchronous part up to the network   *)
(* call (the handler's name), and the part that runs when the call has     *)
(* settled (the handler's name followed by Ok or Fail).  Everything an     *)
(* async handler does after the last network call runs in one step with    *)
(* the settling: the continuations are microtasks, which run before the    *)
(* browser dispatches another user event.                                  *)
(*                                                                         *)
(* The mount effect (useEffect) is the first step: the page takes no user  *)
(* event before it.  The backend is any backend: a listing is any sequence *)
(* of notes with distinct ids, createNote and updateNote return any note   *)
(* (also one whose id is already in the collection, or is not the id that  *)
(* was sent), and every call can fail.                                     *)
(***************************************************************************)
EXTENDS Integers, Sequences, FiniteSets, TLC

\* ------------------------------------------------------------------ bounds
MaxId == 2        \* note ids are 1..MaxId
MaxNotes == 2     \* longest listing the backend returns, longest collection

\* ------------------------------------------------------------ value sets
Ids == 1..MaxId
NoteTitles == {"a", "b"}
NoteContents == {"a"}
Stamps == {"t1"}
\* what a user can type in a form field
FieldNames == {"title", "content"}
FieldValues == {"", "a"}
\* what a user can type in the search field, as sequences of characters
SearchTexts == {<<>>, <<"a">>, <<" ">>}

\* type Note
Note == [id : Ids, title : NoteTitles, content : NoteContents,
         updated_at : Stamps, created_at : Stamps]

\* null, for the error slot
null == "null"
\* null, for the selected note
noNote == [id |-> 0, title |-> "", content |-> "", updated_at |-> "", created_at |-> ""]

ViewMode == {"list", "edit", "new"}

\* every sequence over S of length at most n
RECURSIVE SeqsUpTo(_, _)
SeqsUpTo(S, n) ==
    IF n = 0 THEN {<<>>}
    ELSE LET shorter == SeqsUpTo(S, n - 1)
         IN  shorter \cup {Append(s, x) : s \in {t \in shorter : Len(t) = n - 1}, x \in S}

\* the ids of a listing are distinct: each note is listed once (key={note.id})
DistinctIds(s) == \A i, j \in DOMAIN s : s[i].id = s[j].id => i = j

\* what a listing request can return
Listings == {s \in SeqsUpTo(Note, MaxNotes) : DistinctIds(s)}

VARIABLES
    notes,      \* useState<Note[]>([])
    search,     \* useState("")
    loading,    \* useState(false)
    selected,   \* useState<null | Note>(null)
    view,       \* useState<ViewMode>("list")
    formData,   \* useState({ title: "", content: "" })
    error,      \* useState<string | null>(null)
    mounted,    \* the mount effect has run
    inflight,   \* the requests issued and not settled, each with its handler's closure
    response    \* how the last request settled, until the next user event

vars == <<notes, search, loading, selected, view, formData, error, mounted, inflight, response>>

\* ------------------------------------------------------- API access (l.14-61)
BASE_URL == "http://localhost:4000/api"

\* encodeURIComponent of one character: letters are kept, a space is escaped
encodeChar(c) == IF c = " " THEN <<"%", "2", "0">> ELSE <<c>>

RECURSIVE encodeURIComponent(_)
encodeURIComponent(s) ==
    IF s = <<>> THEN <<>> ELSE encodeChar(Head(s)) \o encodeURIComponent(Tail(s))

noBody == [title |-> "", content |-> ""]

\* query.trim()
RECURSIVE trimStart(_)
trimStart(s) == IF s # <<>> /\ Head(s) = " " THEN trimStart(Tail(s)) ELSE s

RECURSIVE trimEnd(_)
trimEnd(s) ==
    IF s # <<>> /\ s[Len(s)] = " " THEN trimEnd(SubSeq(s, 1, Len(s) - 1)) ELSE s

\* fetchNotes trimming the query first
fetchNotesTrimmed(query) ==
    [method |-> "GET",
     url    |-> IF trimEnd(trimStart(query)) # <<>>
                THEN <<BASE_URL, "/notes", "?search=">>
                         \o encodeURIComponent(trimEnd(trimStart(query)))
                ELSE <<BASE_URL, "/notes">>,
     body   |-> noBody]

\* the request each API function sends: method, url (as its pieces) and body
fetchNotes(query) ==
    [method |-> "GET",
     url    |-> IF query # <<>>
                THEN <<BASE_URL, "/notes", "?search=">> \o encodeURIComponent(query)
                ELSE <<BASE_URL, "/notes">>,
     body   |-> noBody]

createNote(note) ==
    [method |-> "POST", url |-> <<BASE_URL, "/notes">>, body |-> note]

updateNote(id, note) ==
    [method |-> "PUT", url |-> <<BASE_URL, "/notes", "/", ToString(id)>>, body |-> note]

deleteNote(id) ==
    [method |-> "DELETE", url |-> <<BASE_URL, "/notes", "/", ToString(id)>>, body |-> noBody]

\* --------------------------------------------------------------- requests
\* the values of the render whose handler issued the request
closure == [notes |-> notes, selected |-> selected, view |-> view, formData |-> formData]

\* a request in flight: the handler that waits for it, what was sent, the closure
Pending(op, req) == [op |-> op, req |-> req, closure |-> closure]

noResponse == [op |-> "none", ok |-> FALSE, data |-> <<>>]
Settled(op, ok, data) == [op |-> op, ok |-> ok, data |-> data]

\* the request at position i leaves the network
Remove(s, i) == SubSeq(s, 1, i - 1) \o SubSeq(s, i + 1, Len(s))

\* ------------------------------------------------------ state updaters
\* the returned note moved to the front instead of replaced in place
replaceAtFront(prev, n) == <<n>> \o SelectSeq(prev, LAMBDA x : x.id # n.id)

\* prev.map((x) => (x.id === n.id ? n : x))
replaceById(prev, n) == [i \in DOMAIN prev |-> IF prev[i].id = n.id THEN n ELSE prev[i]]

\* [...prev, n]
appendAtEnd(prev, n) == prev \o <<n>>

\* [n, ...prev]
prepend(prev, n) == <<n>> \o prev

\* prev.filter((n) => n.id === id)
keepById(prev, id) == SelectSeq(prev, LAMBDA x : x.id = id)

\* prev.filter((n) => n.id !== id)
RECURSIVE removeById(_, _)
removeById(prev, id) ==
    IF prev = <<>> THEN <<>>
    ELSE IF Head(prev).id # id THEN <<Head(prev)>> \o removeById(Tail(prev), id)
         ELSE removeById(Tail(prev), id)

\* ------------------------------------------- which controls can be used
\* disabled={loading} on each control
searchInputDisabled == loading
searchButtonDisabled == loading
newButtonDisabled == loading
sidebarRowDisabled == loading
formFieldDisabled == loading
submitButtonDisabled == loading
\* the Delete button without its disabled attribute
deleteButtonAlwaysEnabled == FALSE

deleteButtonDisabled == loading

\* the sidebar shows the rows only when not loading and the collection is not empty
sidebarRowsShown == ~loading /\ Len(notes) > 0
\* the form is rendered in edit and new
formShown == view \in {"edit", "new"}
\* the cards are rendered in list
cardsShown == view = "list" /\ Len(notes) > 0
\* both form fields are required: the browser submits only a filled form
formValid == formData.title # "" /\ formData.content # ""

\* ------------------------------------------------------------------ Init
Init ==
    /\ notes = <<>>
    /\ search = <<>>
    /\ loading = FALSE
    /\ selected = noNote
    /\ view = "list"
    /\ formData = [title |-> "", content |-> ""]
    /\ error = null
    /\ mounted = FALSE
    /\ inflight = <<>>
    /\ response = noResponse

\* ------------------------------------------------------------ reloadNotes
\* reloadNotes up to the await: setLoading(true), fetchNotes(txt)
reloadNotes(op, txt) ==
    /\ loading' = TRUE
    /\ inflight' = Append(inflight, Pending(op, fetchNotes(txt)))

\* the effect without its dependency array: it runs again after every render
useEffectRepeating ==
    /\ reloadNotes("load", <<>>)
    /\ response' = noResponse
    /\ UNCHANGED <<notes, search, selected, view, formData, error, mounted>>

\* useEffect(() => { reloadNotes(); }, [])
useEffect ==
    /\ ~mounted
    /\ mounted' = TRUE
    /\ reloadNotes("load", <<>>)
    /\ response' = noResponse
    /\ UNCHANGED <<notes, search, selected, view, formData, error>>

\* reloadNotes after the await, the listing arrived: setNotes(data), finally
reloadNotesOk(i, data) ==
    /\ i \in DOMAIN inflight
    /\ inflight[i].op = "load"
    /\ notes' = data
    /\ loading' = FALSE
    /\ inflight' = Remove(inflight, i)
    /\ response' = Settled("load", TRUE, data)
    /\ UNCHANGED <<search, selected, view, formData, error, mounted>>

\* reloadNotes with setLoading(false) at the end of the try instead of a finally
reloadNotesFailNoFinally(i) ==
    /\ i \in DOMAIN inflight
    /\ inflight[i].op = "load"
    /\ error' = "Failed to load notes."
    /\ inflight' = Remove(inflight, i)
    /\ response' = Settled("load", FALSE, <<>>)
    /\ UNCHANGED <<notes, search, loading, selected, view, formData, mounted>>

\* reloadNotes after the await, fetchNotes threw: catch, finally
reloadNotesFail(i) ==
    /\ i \in DOMAIN inflight
    /\ inflight[i].op = "load"
    /\ error' = "Failed to load notes."
    /\ loading' = FALSE
    /\ inflight' = Remove(inflight, i)
    /\ response' = Settled("load", FALSE, <<>>)
    /\ UNCHANGED <<notes, search, selected, view, formData, mounted>>

\* ----------------------------------------------------------- handleSearch
\* onChange of the search input: setSearch(e.target.value)
setSearch(txt) ==
    /\ mounted
    /\ ~searchInputDisabled
    /\ search' = txt
    /\ response' = noResponse
    /\ UNCHANGED <<notes, loading, selected, view, formData, error, mounted, inflight>>

\* handleSearch up to the await: reloadNotes(search)
handleSearch ==
    /\ mounted
    /\ ~searchButtonDisabled
    /\ reloadNotes("search", search)
    /\ response' = noResponse
    /\ UNCHANGED <<notes, search, selected, view, formData, error, mounted>>

\* the listing merged into the collection instead of replacing it
handleSearchOkMerging(i, data) ==
    /\ i \in DOMAIN inflight
    /\ inflight[i].op = "search"
    /\ notes' = data \o notes
    /\ loading' = FALSE
    /\ selected' = noNote
    /\ view' = "list"
    /\ inflight' = Remove(inflight, i)
    /\ response' = Settled("search", TRUE, data)
    /\ UNCHANGED <<search, formData, error, mounted>>

\* the listing arrived: the rest of reloadNotes, then setSelected(null); setView("list")
handleSearchOk(i, data) ==
    /\ i \in DOMAIN inflight
    /\ inflight[i].op = "search"
    /\ notes' = data
    /\ loading' = FALSE
    /\ selected' = noNote
    /\ view' = "list"
    /\ inflight' = Remove(inflight, i)
    /\ response' = Settled("search", TRUE, data)
    /\ UNCHANGED <<search, formData, error, mounted>>

\* reloadNotes rethrowing: handleSearch stops at the await
handleSearchFailRethrown(i) ==
    /\ i \in DOMAIN inflight
    /\ inflight[i].op = "search"
    /\ error' = "Failed to load notes."
    /\ loading' = FALSE
    /\ inflight' = Remove(inflight, i)
    /\ response' = Settled("search", FALSE, <<>>)
    /\ UNCHANGED <<notes, search, selected, view, formData, mounted>>

\* fetchNotes threw: the rest of reloadNotes, then setSelected(null); setView("list")
handleSearchFail(i) ==
    /\ i \in DOMAIN inflight
    /\ inflight[i].op = "search"
    /\ error' = "Failed to load notes."
    /\ loading' = FALSE
    /\ selected' = noNote
    /\ view' = "list"
    /\ inflight' = Remove(inflight, i)
    /\ response' = Settled("search", FALSE, <<>>)
    /\ UNCHANGED <<notes, search, formData, mounted>>

\* ----------------------------------------------------------- handleSelect
\* handleSelect copying the title only
handleSelectTitleOnly(note) ==
    /\ selected' = note
    /\ formData' = [formData EXCEPT !.title = note.title]
    /\ view' = "edit"
    /\ response' = noResponse
    /\ UNCHANGED <<notes, search, loading, error, mounted, inflight>>

handleSelect(note) ==
    /\ selected' = note
    /\ formData' = [title |-> note.title, content |-> note.content]
    /\ view' = "edit"
    /\ response' = noResponse
    /\ UNCHANGED <<notes, search, loading, error, mounted, inflight>>

\* a click on a row of the sidebar
selectSidebarRow(i) ==
    /\ mounted
    /\ sidebarRowsShown
    /\ ~sidebarRowDisabled
    /\ i \in DOMAIN notes
    /\ handleSelect(notes[i])

\* a click on a card of the list view
selectCard(i) ==
    /\ mounted
    /\ cardsShown
    /\ i \in DOMAIN notes
    /\ handleSelect(notes[i])

\* -------------------------------------------------------------- handleNew
\* handleNew without setSelected(null)
handleNewKeepingSelection ==
    /\ mounted
    /\ ~newButtonDisabled
    /\ formData' = [title |-> "", content |-> ""]
    /\ view' = "new"
    /\ response' = noResponse
    /\ UNCHANGED <<notes, search, loading, selected, error, mounted, inflight>>

handleNew ==
    /\ mounted
    /\ ~newButtonDisabled
    /\ selected' = noNote
    /\ formData' = [title |-> "", content |-> ""]
    /\ view' = "new"
    /\ response' = noResponse
    /\ UNCHANGED <<notes, search, loading, error, mounted, inflight>>

\* ------------------------------------------------------- handleFormChange
handleFormChange(name, value) ==
    /\ mounted
    /\ formShown
    /\ ~formFieldDisabled
    /\ formData' = [formData EXCEPT ![name] = value]
    /\ response' = noResponse
    /\ UNCHANGED <<notes, search, loading, selected, view, error, mounted, inflight>>

\* ------------------------------------------------------- handleFormSubmit
\* handleFormSubmit without setError(null)
handleFormSubmitKeepingError ==
    /\ mounted
    /\ formShown
    /\ ~submitButtonDisabled
    /\ formValid
    /\ response' = noResponse
    /\ IF view = "edit" /\ selected # noNote
       THEN /\ loading' = TRUE
            /\ inflight' = Append(inflight, Pending("update", updateNote(selected.id, formData)))
       ELSE IF view = "new"
       THEN /\ Len(notes) < MaxNotes
            /\ loading' = TRUE
            /\ inflight' = Append(inflight, Pending("create", createNote(formData)))
       ELSE /\ loading' = FALSE
            /\ inflight' = inflight
    /\ UNCHANGED <<notes, search, selected, view, formData, error, mounted>>

\* handleFormSubmit up to the await; without a branch to take it runs to its end
submitForm ==
    /\ error' = null
    /\ response' = noResponse
    /\ IF view = "edit" /\ selected # noNote
       THEN /\ loading' = TRUE
            /\ inflight' = Append(inflight, Pending("update", updateNote(selected.id, formData)))
       ELSE IF view = "new"
       THEN /\ Len(notes) < MaxNotes
            /\ loading' = TRUE
            /\ inflight' = Append(inflight, Pending("create", createNote(formData)))
       ELSE /\ loading' = FALSE
            /\ inflight' = inflight
    /\ UNCHANGED <<notes, search, selected, view, formData, mounted>>

\* onSubmit of the form: a click on Save Changes or Create Note
handleFormSubmit ==
    /\ mounted
    /\ formShown
    /\ ~submitButtonDisabled
    /\ formValid
    /\ submitForm

\* the edit branch without setSelected(n)
handleFormSubmitUpdateOkKeepingSelected(i, n) ==
    /\ i \in DOMAIN inflight
    /\ inflight[i].op = "update"
    /\ notes' = replaceById(notes, n)
    /\ loading' = FALSE
    /\ inflight' = Remove(inflight, i)
    /\ response' = Settled("update", TRUE, <<n>>)
    /\ UNCHANGED <<search, selected, view, formData, error, mounted>>

\* updateNote returned n
handleFormSubmitUpdateOk(i, n) ==
    /\ i \in DOMAIN inflight
    /\ inflight[i].op = "update"
    /\ notes' = replaceById(notes, n)
    /\ selected' = n
    /\ loading' = FALSE
    /\ inflight' = Remove(inflight, i)
    /\ response' = Settled("update", TRUE, <<n>>)
    /\ UNCHANGED <<search, view, formData, error, mounted>>

\* createNote returned n
handleFormSubmitCreateOk(i, n) ==
    /\ i \in DOMAIN inflight
    /\ inflight[i].op = "create"
    /\ notes' = prepend(notes, n)
    /\ selected' = n
    /\ view' = "edit"
    /\ loading' = FALSE
    /\ inflight' = Remove(inflight, i)
    /\ response' = Settled("create", TRUE, <<n>>)
    /\ UNCHANGED <<search, formData, error, mounted>>

\* the catch without the finally
handleFormSubmitFailNoFinally(i) ==
    /\ i \in DOMAIN inflight
    /\ inflight[i].op \in {"update", "create"}
    /\ error' = "Save failed."
    /\ inflight' = Remove(inflight, i)
    /\ response' = Settled(inflight[i].op, FALSE, <<>>)
    /\ UNCHANGED <<notes, search, loading, selected, view, formData, mounted>>

\* updateNote or createNote threw
handleFormSubmitFail(i) ==
    /\ i \in DOMAIN inflight
    /\ inflight[i].op \in {"update", "create"}
    /\ error' = "Save failed."
    /\ loading' = FALSE
    /\ inflight' = Remove(inflight, i)
    /\ response' = Settled(inflight[i].op, FALSE, <<>>)
    /\ UNCHANGED <<notes, search, selected, view, formData, mounted>>

\* ----------------------------------------------------------- handleDelete
\* handleDelete up to the await
handleDelete ==
    /\ mounted
    /\ view = "edit"
    /\ ~deleteButtonDisabled
    /\ response' = noResponse
    /\ IF selected = noNote
       THEN UNCHANGED <<loading, inflight>>
       ELSE /\ loading' = TRUE
            /\ inflight' = Append(inflight, Pending("delete", deleteNote(selected.id)))
    /\ UNCHANGED <<notes, search, selected, view, formData, error, mounted>>

\* handleDelete without setView("list")
handleDeleteOkKeepingView(i) ==
    /\ i \in DOMAIN inflight
    /\ inflight[i].op = "delete"
    /\ notes' = removeById(notes, inflight[i].closure.selected.id)
    /\ selected' = noNote
    /\ loading' = FALSE
    /\ inflight' = Remove(inflight, i)
    /\ response' = Settled("delete", TRUE, <<>>)
    /\ UNCHANGED <<search, view, formData, error, mounted>>

\* deleteNote returned; selected is the one of the handler's closure
handleDeleteOk(i) ==
    /\ i \in DOMAIN inflight
    /\ inflight[i].op = "delete"
    /\ notes' = removeById(notes, inflight[i].closure.selected.id)
    /\ selected' = noNote
    /\ view' = "list"
    /\ loading' = FALSE
    /\ inflight' = Remove(inflight, i)
    /\ response' = Settled("delete", TRUE, <<>>)
    /\ UNCHANGED <<search, formData, error, mounted>>

\* the selection cleared in the finally instead of after the call
handleDeleteFailClearing(i) ==
    /\ i \in DOMAIN inflight
    /\ inflight[i].op = "delete"
    /\ error' = "Delete failed."
    /\ selected' = noNote
    /\ view' = "list"
    /\ loading' = FALSE
    /\ inflight' = Remove(inflight, i)
    /\ response' = Settled("delete", FALSE, <<>>)
    /\ UNCHANGED <<notes, search, formData, mounted>>

\* the catch of handleFormSubmit copied into handleDelete
handleDeleteFailSaveMessage(i) ==
    /\ i \in DOMAIN inflight
    /\ inflight[i].op = "delete"
    /\ error' = "Save failed."
    /\ loading' = FALSE
    /\ inflight' = Remove(inflight, i)
    /\ response' = Settled("delete", FALSE, <<>>)
    /\ UNCHANGED <<notes, search, selected, view, formData, mounted>>

\* deleteNote threw
handleDeleteFail(i) ==
    /\ i \in DOMAIN inflight
    /\ inflight[i].op = "delete"
    /\ error' = "Delete failed."
    /\ loading' = FALSE
    /\ inflight' = Remove(inflight, i)
    /\ response' = Settled("delete", FALSE, <<>>)
    /\ UNCHANGED <<notes, search, selected, view, formData, mounted>>

\* ------------------------------------------------------------------ Next
Next ==
    \/ useEffect
    \/ \E i \in DOMAIN inflight, data \in Listings : reloadNotesOk(i, data)
    \/ \E i \in DOMAIN inflight : reloadNotesFail(i)
    \/ \E txt \in SearchTexts : setSearch(txt)
    \/ handleSearch
    \/ \E i \in DOMAIN inflight, data \in Listings : handleSearchOk(i, data)
    \/ \E i \in DOMAIN inflight : handleSearchFail(i)
    \/ \E i \in 1..MaxNotes : selectSidebarRow(i)
    \/ \E i \in 1..MaxNotes : selectCard(i)
    \/ handleNew
    \/ \E name \in FieldNames, value \in FieldValues : handleFormChange(name, value)
    \/ handleFormSubmit
    \/ \E i \in DOMAIN inflight, n \in Note : handleFormSubmitUpdateOk(i, n)
    \/ \E i \in DOMAIN inflight, n \in Note : handleFormSubmitCreateOk(i, n)
    \/ \E i \in DOMAIN inflight : handleFormSubmitFail(i)
    \/ handleDelete
    \/ \E i \in DOMAIN inflight : handleDeleteOk(i)
    \/ \E i \in DOMAIN inflight : handleDeleteFail(i)

Spec == Init /\ [][Next]_vars

\* a request in flight settles: the awaited fetch resolves or rejects
Settle ==
    \/ \E i \in DOMAIN inflight, data \in Listings : reloadNotesOk(i, data)
    \/ \E i \in DOMAIN inflight : reloadNotesFail(i)
    \/ \E i \in DOMAIN inflight, data \in Listings : handleSearchOk(i, data)
    \/ \E i \in DOMAIN inflight : handleSearchFail(i)
    \/ \E i \in DOMAIN inflight, n \in Note : handleFormSubmitUpdateOk(i, n)
    \/ \E i \in DOMAIN inflight, n \in Note : handleFormSubmitCreateOk(i, n)
    \/ \E i \in DOMAIN inflight : handleFormSubmitFail(i)
    \/ \E i \in DOMAIN inflight : handleDeleteOk(i)
    \/ \E i \in DOMAIN inflight : handleDeleteFail(i)

\* the page with a network on which every request settles
SpecSettling == Init /\ [][Next]_vars /\ WF_vars(Settle)

\* ------------------------------------ a backend that keeps its ids
\* updateNote returns the note with the id of the request
updateOkSameId(i, n) ==
    /\ i \in DOMAIN inflight
    /\ inflight[i].op = "update"
    /\ inflight[i].req.url = <<BASE_URL, "/notes", "/", ToString(n.id)>>
    /\ handleFormSubmitUpdateOk(i, n)

\* createNote returns a note with an id that no note of the collection has
createOkFreshId(i, n) ==
    /\ \A k \in DOMAIN notes : notes[k].id # n.id
    /\ handleFormSubmitCreateOk(i, n)

NextUniqueIds ==
    \/ useEffect
    \/ \E i \in DOMAIN inflight, data \in Listings : reloadNotesOk(i, data)
    \/ \E i \in DOMAIN inflight : reloadNotesFail(i)
    \/ \E txt \in SearchTexts : setSearch(txt)
    \/ handleSearch
    \/ \E i \in DOMAIN inflight, data \in Listings : handleSearchOk(i, data)
    \/ \E i \in DOMAIN inflight : handleSearchFail(i)
    \/ \E i \in 1..MaxNotes : selectSidebarRow(i)
    \/ \E i \in 1..MaxNotes : selectCard(i)
    \/ handleNew
    \/ \E name \in FieldNames, value \in FieldValues : handleFormChange(name, value)
    \/ handleFormSubmit
    \/ \E i \in DOMAIN inflight, n \in Note : updateOkSameId(i, n)
    \/ \E i \in DOMAIN inflight, n \in Note : createOkFreshId(i, n)
    \/ \E i \in DOMAIN inflight : handleFormSubmitFail(i)
    \/ handleDelete
    \/ \E i \in DOMAIN inflight : handleDeleteOk(i)
    \/ \E i \in DOMAIN inflight : handleDeleteFail(i)

SpecUniqueIds == Init /\ [][NextUniqueIds]_vars

\* the error slot holds null or one of the three messages
Errors == {null, "Failed to load notes.", "Save failed.", "Delete failed."}

\* ------------------------------------------- handleFormSubmit on its own
\* the handler called on an idle page in any view, with or without a selected note
InitSubmit ==
    /\ notes \in Listings
    /\ search = <<>>
    /\ loading = FALSE
    /\ selected \in Note \cup {noNote}
    /\ view \in ViewMode
    /\ formData \in [title : FieldValues, content : FieldValues]
    /\ error \in Errors
    /\ mounted = TRUE
    /\ inflight = <<>>
    /\ response = noResponse

\* one call, on the idle page
NextSubmit == ~loading /\ submitForm

SpecSubmit == InitSubmit /\ [][NextSubmit]_vars

TypeOK ==
    /\ notes \in SeqsUpTo(Note, MaxNotes)
    /\ search \in SearchTexts
    /\ loading \in BOOLEAN
    /\ selected \in Note \cup {noNote}
    /\ view \in ViewMode
    /\ error \in Errors
    /\ mounted \in BOOLEAN

\* ================================================================ claims
\* the step in which the request of handler op settles, with outcome ok
settles(op, ok) ==
    /\ inflight # <<>>
    /\ response'.op = op
    /\ response'.ok = ok

\* the state right after the request of handler op settled with outcome ok
settledAs(op, ok) == response.op = op /\ response.ok = ok

\* what the handler saw when it issued the request that is in flight
before == inflight[1].closure

\* C1: at most one request is in flight, and while one is in flight none of
\* the actions that issue a request (search submit, form submit, delete) is enabled.
C1_OneRequestInFlight ==
    /\ Len(inflight) <= 1
    /\ inflight # <<>> =>
          /\ ~ENABLED handleSearch
          /\ ~ENABLED handleFormSubmit
          /\ ~ENABLED handleDelete
          /\ ~ENABLED useEffect

\* a save is in flight while the form shows a selected note and a filled draft
C1_Witness ==
    /\ Len(inflight) = 1
    /\ inflight[1].op = "update"
    /\ view = "edit"
    /\ selected # noNote
    /\ formValid

\* C2: loading is true exactly while a request is in flight; right after a
\* request has settled, with either outcome, loading is false and the gated
\* controls are enabled again.
C2_LoadingIffPending ==
    /\ loading <=> inflight # <<>>
    /\ response.op # "none" => ~loading /\ ENABLED handleSearch /\ ENABLED handleNew
    /\ loading => ~ENABLED handleSearch /\ ~ENABLED handleNew

\* a save has just failed and the controls are enabled again
C2_Witness ==
    /\ settledAs("update", FALSE)
    /\ ~loading
    /\ ENABLED handleFormSubmit
    /\ ENABLED handleDelete

\* C3: a failed update leaves collection, selection, view and draft as they
\* were when the form was submitted and sets "Save failed."; submitting again
\* right after sends the same update and clears the error; when an update
\* succeeds the error stays cleared and the returned note is applied.
C3_FailedUpdateIsolated ==
    [][ /\ settles("update", FALSE) =>
              /\ notes' = before.notes
              /\ selected' = before.selected
              /\ view' = before.view
              /\ formData' = before.formData
              /\ error' = "Save failed."
        /\ (settledAs("update", FALSE) /\ handleFormSubmit) =>
              /\ error' = null
              /\ Len(inflight') = 1
              /\ inflight'[1].op = "update"
              /\ inflight'[1].req = [method |-> "PUT",
                                     url |-> <<BASE_URL, "/notes", "/", ToString(selected.id)>>,
                                     body |-> formData]
        /\ settles("update", TRUE) =>
              /\ error' = null
              /\ selected' = response'.data[1]
              /\ \A i \in DOMAIN notes :
                    notes[i].id = response'.data[1].id => notes'[i] = response'.data[1]
      ]_vars

\* an update of a changed title has just failed
C3_Witness ==
    /\ settledAs("update", FALSE)
    /\ error = "Save failed."
    /\ view = "edit"
    /\ selected # noNote
    /\ formData.title # selected.title
    /\ \E i \in DOMAIN notes : notes[i] = selected

\* C4: a successful update replaces the entries with the returned note's id by
\* the returned note, changes no other entry, keeps order and length (one entry
\* at most changes when the ids are distinct), selects the returned note and
\* stays in edit.
C4_UpdateReplacesById ==
    [][ settles("update", TRUE) =>
          LET n == response'.data[1] IN
          /\ Len(notes') = Len(notes)
          /\ \A i \in DOMAIN notes :
                notes'[i] = IF notes[i].id = n.id THEN n ELSE notes[i]
          /\ (\A i, j \in DOMAIN notes : notes[i].id = notes[j].id => i = j)
                => Cardinality({i \in DOMAIN notes : notes'[i] # notes[i]}) <= 1
          /\ selected' = n
          /\ view = "edit"
          /\ view' = "edit"
      ]_vars

\* an update has just replaced the second of two notes with distinct ids
C4_Witness ==
    /\ settledAs("update", TRUE)
    /\ Len(notes) = 2
    /\ notes[2] = response.data[1]
    /\ notes[1].id # notes[2].id
    /\ selected = notes[2]
    /\ view = "edit"

\* C5: a successful create puts the returned note in front of the previous
\* entries, which keep their order, selects it and moves the view from new to
\* edit; a failed create leaves collection, selection and view (new) as they
\* were and sets "Save failed.".
C5_CreatePrepends ==
    [][ /\ settles("create", TRUE) =>
              /\ notes' = <<response'.data[1]>> \o notes
              /\ selected' = response'.data[1]
              /\ view = "new"
              /\ view' = "edit"
        /\ settles("create", FALSE) =>
              /\ notes' = before.notes
              /\ selected' = before.selected
              /\ selected' = noNote
              /\ view' = "new"
              /\ before.view = "new"
              /\ error' = "Save failed."
      ]_vars

\* a create has just put its note in front of another one
C5_Witness ==
    /\ settledAs("create", TRUE)
    /\ Len(notes) = 2
    /\ notes[1] = response.data[1]
    /\ notes[2].id # notes[1].id
    /\ selected = notes[1]
    /\ view = "edit"

C7_FailedDeleteIsolated ==
    [][ settles("delete", FALSE) =>
          /\ error' = "Delete failed."
          /\ notes' = before.notes
          /\ selected' = before.selected
          /\ view' = before.view
          /\ formData' = before.formData
          /\ \A i \in DOMAIN notes : notes[i].id = selected.id =>
                i \in DOMAIN notes' /\ notes'[i] = notes[i]
      ]_vars

\* a delete has just failed with the note still selected and in the collection
C7_Witness ==
    /\ settledAs("delete", FALSE)
    /\ error = "Delete failed."
    /\ view = "edit"
    /\ \E i \in DOMAIN notes : notes[i] = selected

\* C8: after a successful search the collection is the returned listing,
\* whatever collection, selection and view there were when it settled.
C8_SearchReplaces ==
    [][ settles("search", TRUE) => notes' = response'.data ]_vars

\* a search has just returned nothing
C8_Witness ==
    /\ settledAs("search", TRUE)
    /\ response.data = <<>>
    /\ notes = <<>>
    /\ search # <<>>

\* C9: when a search settles, with either outcome and from any view, the view
\* is list and no note is selected; when it failed the collection is the one
\* there was and the error is "Failed to load notes.".
C9_SearchEndsInList ==
    [][ /\ (settles("search", TRUE) \/ settles("search", FALSE)) =>
              /\ view' = "list"
              /\ selected' = noNote
        /\ settles("search", FALSE) =>
              /\ notes' = notes
              /\ notes' = before.notes
              /\ error' = "Failed to load notes."
      ]_vars

\* a search has just failed; the draft shows that a note had been opened
C9_Witness ==
    /\ settledAs("search", FALSE)
    /\ view = "list"
    /\ selected = noNote
    /\ notes # <<>>
    /\ formData.title # ""
    /\ error = "Failed to load notes."

\* C10: New Note yields view new, no selection and an empty draft from any
\* view, issues no request and leaves collection, search text, loading flag
\* and error as they are; it can be used in every view when nothing is loading.
C10_NewNoteIsLocal ==
    /\ [][ handleNew =>
             /\ view' = "new"
             /\ selected' = noNote
             /\ formData' = [title |-> "", content |-> ""]
             /\ inflight' = inflight
             /\ notes' = notes
             /\ search' = search
             /\ loading' = loading
             /\ error' = error
         ]_vars
    /\ []((mounted /\ ~loading) => ENABLED handleNew)

\* the form for a new note, empty, with notes and an error on the page
C10_Witness ==
    /\ view = "new"
    /\ selected = noNote
    /\ formData = [title |-> "", content |-> ""]
    /\ notes # <<>>
    /\ error = "Delete failed."
    /\ ~loading

C12_InitialLoad ==
    [][ /\ useEffect =>
              /\ inflight = <<>>
              /\ Len(inflight') = 1
              /\ inflight'[1].op = "load"
              /\ inflight'[1].req = [method |-> "GET", url |-> <<BASE_URL, "/notes">>,
                                     body |-> noBody]
              /\ mounted'
        /\ (Len(inflight') > Len(inflight) /\ inflight'[Len(inflight')].op = "load") => ~mounted
        /\ mounted => mounted'
        /\ settles("load", TRUE) =>
              /\ notes = <<>>
              /\ notes' = response'.data
              /\ view' = "list"
              /\ selected' = noNote
        /\ settles("load", FALSE) =>
              /\ notes' = <<>>
              /\ error' = "Failed to load notes."
              /\ view' = "list"
              /\ selected' = noNote
      ]_vars

\* the initial load has just failed
C12_Witness ==
    /\ settledAs("load", FALSE)
    /\ notes = <<>>
    /\ error = "Failed to load notes."
    /\ view = "list"
    /\ selected = noNote

\* the message of each category of operation
FailureMessage(op) ==
    CASE op \in {"load", "search"}   -> "Failed to load notes."
      [] op \in {"update", "create"} -> "Save failed."
      [] op = "delete"               -> "Delete failed."

\* C13: the error slot holds null or one of the three messages; right after a
\* failed operation it holds the message of that operation's category, whatever
\* it held before, and the page is idle again: a search or a new note can be started.
C13_ErrorMessages ==
    /\ error \in {null, "Failed to load notes.", "Save failed.", "Delete failed."}
    /\ (response.op # "none" /\ ~response.ok) =>
          /\ error = FailureMessage(response.op)
          /\ ~loading
          /\ ENABLED handleSearch
          /\ ENABLED handleNew

\* a delete has just failed and can be tried again
C13_Witness ==
    /\ settledAs("delete", FALSE)
    /\ error = "Delete failed."
    /\ ENABLED handleDelete
    /\ ENABLED handleSearch

\* C14: when every request settles, loading is always followed by not loading;
\* loading ends only in a step in which a request settles (there is no timeout),
\* and until then no control that issues a request is enabled.
C14_LoadingEnds ==
    /\ loading ~> ~loading
    /\ [][(loading /\ ~loading') => Len(inflight') < Len(inflight)]_vars
    /\ [](loading => ~ENABLED handleSearch /\ ~ENABLED handleFormSubmit /\ ~ENABLED handleDelete)

\* a search has settled and the page is idle again
C14_Witness ==
    /\ settledAs("search", TRUE)
    /\ ~loading
    /\ inflight = <<>>
    /\ ENABLED handleSearch

\* what the backend reads from an escaped search parameter
RECURSIVE decodeURIComponent(_)
decodeURIComponent(s) ==
    IF s = <<>> THEN <<>>
    ELSE IF Len(s) >= 3 /\ SubSeq(s, 1, 3) = <<"%", "2", "0">>
         THEN <<" ">> \o decodeURIComponent(SubSeq(s, 4, Len(s)))
         ELSE <<Head(s)>> \o decodeURIComponent(Tail(s))

\* C15: a search with the empty query sends the request of the initial load,
\* a GET of {base}/notes without a search parameter; a search with any other
\* query sends a GET of {base}/notes?search= followed by the escaped query,
\* which reads back as the query as typed, spaces included.
C15_SearchRequestTarget ==
    \A i \in DOMAIN inflight :
        inflight[i].op \in {"load", "search"} =>
            LET req == inflight[i].req
                q   == IF inflight[i].op = "load" THEN <<>> ELSE search
            IN  /\ req.method = "GET"
                /\ req.body = noBody
                /\ q = <<>> => req.url = <<BASE_URL, "/notes">>
                /\ q # <<>> =>
                      /\ Len(req.url) > 3
                      /\ SubSeq(req.url, 1, 3) = <<BASE_URL, "/notes", "?search=">>
                      /\ decodeURIComponent(SubSeq(req.url, 4, Len(req.url))) = q

\* a search for a single space is in flight, the space escaped
C15_Witness ==
    /\ Len(inflight) = 1
    /\ inflight[1].op = "search"
    /\ search = <<" ">>
    /\ inflight[1].req.url = <<BASE_URL, "/notes", "?search=", "%", "2", "0">>

\* C16: starting a search, a save or a delete resets the error slot, so while
\* one of them is in flight, and after one of them has succeeded, the error
\* slot is empty.
C16_ErrorResetAtStart ==
    /\ \A i \in DOMAIN inflight :
          inflight[i].op \in {"search", "update", "create", "delete"} => error = null
    /\ (response.ok /\ response.op \in {"search", "update", "create", "delete"}) =>
          error = null

\* C17: selecting a note, from a sidebar row or from a card, selects that
\* note, copies its title and content into the draft and sets the view to edit;
\* it issues no request and leaves collection, search text, loading flag and
\* error as they are.
C17_SelectIsLocal ==
    [][ \A i \in 1..MaxNotes :
          (selectSidebarRow(i) \/ selectCard(i)) =>
              /\ selected' = notes[i]
              /\ formData' = [title |-> notes[i].title, content |-> notes[i].content]
              /\ view' = "edit"
              /\ inflight' = inflight
              /\ notes' = notes
              /\ search' = search
              /\ loading' = loading
              /\ error' = error
      ]_vars

\* the second note is open with its title and content in the draft, under an error
C17_Witness ==
    /\ view = "edit"
    /\ Len(notes) = 2
    /\ selected = notes[2]
    /\ formData = [title |-> notes[2].title, content |-> notes[2].content]
    /\ error = "Failed to load notes."
    /\ response = noResponse
    /\ inflight = <<>>

\* C18: a note is selected exactly when the view is edit.
C18_SelectedIffEdit == (selected # noNote) <=> (view = "edit")

\* a create has just opened its note in edit
C18_Witness ==
    /\ settledAs("create", TRUE)
    /\ view = "edit"
    /\ selected = response.data[1]

\* C19: with a backend that gives each note its own id and answers an update
\* with the id it was sent, the collection has an entry with the id of the
\* selected note, and every such entry is the selected note.
C19_SelectedInCollection ==
    selected # noNote =>
        /\ \E i \in DOMAIN notes : notes[i].id = selected.id
        /\ \A i \in DOMAIN notes : notes[i].id = selected.id => notes[i] = selected

\* an update has just changed the title of the selected note
C19_Witness ==
    /\ settledAs("update", TRUE)
    /\ selected = response.data[1]
    /\ selected.title # formData.title
    /\ \E i \in DOMAIN notes : notes[i] = selected

\* C20: from a state with the loading flag set to the next one with it set,
\* view, selected note and draft do not change, and no row or card can be clicked.
C20_FrozenWhileLoading ==
    /\ [][(loading /\ loading') =>
            /\ view' = view
            /\ selected' = selected
            /\ formData' = formData
         ]_vars
    /\ [](loading => \A i \in 1..MaxNotes : ~ENABLED selectSidebarRow(i) /\ ~ENABLED selectCard(i))

====
